---- MODULE Spec2Model ----
(***************************************************************************)
(* Model of src/app.py: the "amigo secreto" pairing service.               *)
(*                                                                         *)
(* The persistent state is three files: participantes.json (the roster),   *)
(* asignaciones.json (the assignment history, always read and rewritten    *)
(* as a whole) and asignaciones.xlsx (the export).  Every Flask handler is *)
(* one action of the serial specification Spec; in ConcSpec the handlers   *)
(* that write the history run in threads that interleave between their     *)
(* file accesses.                                                          *)
(***************************************************************************)
EXTENDS Integers, Sequences, FiniteSets, TLC

(***************************************************************************)
(* Bounds of the model.                                                    *)
(***************************************************************************)
\* datetime.now() is read from a clock that runs from 0 to MaxTime seconds.
MaxTime == 1
\* The concurrent specifications handle NumRequests requests, each in a
\* thread of its own.
NumRequests == 2

(***************************************************************************)
(* Program constants and the finite universe of strings.                   *)
(***************************************************************************)
ADMIN_PASSWORD == "12345679"
WRONG_PASSWORD == "incorrecta"
\* The text of line 145, its accent dropped.
SENTINEL == "SIN PAREJA (no hay mas participantes disponibles)"
\* Another text with the prefix, one an administrator may type.
SENTINEL_MANUAL == "SIN PAREJA manual"

\* Every person name a request can carry; "Zed" is on no roster.
AllNames == {"Ana", "Beto", "Cruz", "Zed"}

\* str.startswith("SIN PAREJA") over the strings of the model.
StartsWithSinPareja(s) == s \in {SENTINEL, SENTINEL_MANUAL}

\* A submitted text value: its stripped text, and whether blanks surround it.
\* Of the padded values, the blank one and a padded "Ana" are submitted.
RawValue(cores) ==
    [text : cores, blanks : {FALSE}]
        \cup [text : cores \cap {"", "Ana"}, blanks : {TRUE}]

\* str.strip(): the surrounding blanks are dropped, the text remains.
strip(raw) == raw.text

Range(s) == {s[i] : i \in DOMAIN s}

\* The contents participantes.json can have: data.get("names", []) of each.
Rosters ==
    { <<"Ana", "Beto", "Cruz">>, <<"Cruz", "Ana">>, <<"Beto">>, <<>> }

\* Alphabetical order of the names, for sorted().
Alphabetical == <<"Ana", "Beto", "Cruz", "Zed">>

sorted(names) == SelectSeq(Alphabetical, LAMBDA n : n \in Range(names))

VARIABLES
    participantsFile,  \* participantes.json: the "names" list
    assignmentsFile,   \* asignaciones.json: [exists, assignments]
    excelFile,         \* asignaciones.xlsx: [exists, columns, rows]
    now,               \* the wall clock, in whole seconds
    resp,              \* the response of the last request handled
    drawn,             \* history: the names a record was ever created for
    pc,                \* per concurrent request, where its thread stands
    local              \* per concurrent request, the thread's local values

vars ==
    <<participantsFile, assignmentsFile, excelFile, now, resp, drawn, pc,
      local>>

\* The threads of the concurrent specifications; the serial handlers run
\* with no other request in progress and leave them alone.
threads == <<pc, local>>

(***************************************************************************)
(* Helpers of app.py.                                                      *)
(***************************************************************************)
\* Mutant: every known name is on the roster, whatever the file holds.
load_participants_any == <<"Ana", "Beto", "Cruz", "Zed">>

load_participants == participantsFile

\* load_assignments(): its return value ...
load_assignments(file) == IF file.exists THEN file.assignments ELSE <<>>

\* ... and the file it leaves behind (save_assignments([]) when absent).
save_assignments(assignments_list) ==
    [exists |-> TRUE, assignments |-> assignments_list]

file_after_load(file) == IF file.exists THEN file ELSE save_assignments(<<>>)

\* Mutant: a name consumed as a partner is not available either.
available_excluding_partners(participants, assignments) ==
    LET used_names == {assignments[i].name : i \in DOMAIN assignments}
                          \cup {assignments[i].partner : i \in DOMAIN assignments}
    IN  SelectSeq(participants, LAMBDA name : name \notin used_names)

get_available_names(participants, assignments) ==
    LET used_names == {assignments[i].name : i \in DOMAIN assignments}
    IN  SelectSeq(participants, LAMBDA name : name \notin used_names)

used_partners(assignments) ==
    {assignments[i].partner : i \in
        {j \in DOMAIN assignments :
            /\ assignments[j].partner # ""
            /\ ~StartsWithSinPareja(assignments[j].partner)}}

\* Mutant: the partners already used are not excluded.
candidates_ignoring_used(selected_name, participants, assignments) ==
    SelectSeq(participants, LAMBDA name : name # selected_name)

\* Mutant: the requester is not excluded.
candidates_including_self(selected_name, participants, assignments) ==
    SelectSeq(participants,
              LAMBDA name : name \notin used_partners(assignments))

\* Mutant: a member who has a record of their own is no candidate.
candidates_without_records(selected_name, participants, assignments) ==
    SelectSeq(participants,
              LAMBDA name : /\ name # selected_name
                            /\ name \notin used_partners(assignments)
                            /\ \A i \in DOMAIN assignments :
                                  assignments[i].name # name)

get_partner_candidates(selected_name, participants, assignments) ==
    SelectSeq(participants,
              LAMBDA name : /\ name # selected_name
                            /\ name \notin used_partners(assignments))

\* Mutant: the lookup never finds the record.
existing_assignment_never(assignments, name) == <<>>

\* next((a for a in assignments if a["name"] == name), None), as the
\* sequence of matches: empty for None, else its head is the match.
existing_assignment(assignments, name) ==
    SelectSeq(assignments, LAMBDA a : a.name = name)

\* Mutant: the pairing is made mutual, a record is added for the partner.
append_assignment_mutual(assignments, assignment) ==
    Append(Append(assignments, assignment),
           [name |-> assignment.partner, partner |-> assignment.name,
            timestamp |-> assignment.timestamp])

\* assignments.append(assignment)
append_assignment(assignments, assignment) ==
    Append(assignments, assignment)

\* Mutant: the sentinel may be stored while candidates remain.
partner_choices_or_sentinel(candidates) ==
    Range(candidates) \cup {SENTINEL}

\* The values asignar can store as partner: the sentinel for an empty
\* pool, else any member of it (random.choice).
partner_choices(candidates) ==
    IF candidates = <<>> THEN {SENTINEL} ELSE Range(candidates)

EXCEL_COLUMNS == <<"FechaHora", "Nombre", "Pareja">>

\* Mutant: the table of an empty history has no columns (a DataFrame
\* built from an empty list).
export_to_excel_headless(assignments) ==
    [exists |-> TRUE,
     columns |-> IF assignments = <<>> THEN <<>> ELSE EXCEL_COLUMNS,
     rows |-> [i \in DOMAIN assignments |->
                 <<assignments[i].timestamp,
                   assignments[i].name,
                   assignments[i].partner>>]]

\* export_to_excel(), given the history it loads.
export_to_excel(assignments) ==
    [exists |-> TRUE,
     columns |-> EXCEL_COLUMNS,
     rows |-> [i \in DOMAIN assignments |->
                 <<assignments[i].timestamp,
                   assignments[i].name,
                   assignments[i].partner>>]]

(***************************************************************************)
(* Responses.                                                              *)
(***************************************************************************)
\* code: the HTTP status; status: the "status" of a JSON body or the file
\* sent; name, partner: the pair shown; names: the name list rendered
\* (available names, roulette names); created: whether the handler
\* appended a record (the return at line 158, not the one at line 135).
Response(code, status, name, partner, names, created) ==
    [code |-> code, status |-> status, name |-> name, partner |-> partner,
     names |-> names, created |-> created]

NoResponse == Response(0, "", "", "", <<>>, FALSE)

\* Mutant: every failure is answered as a bad request.
abort_bad_request(code) == Response(400, "", "", "", <<>>, FALSE)

\* abort(code) and the redirects to the index page.
Abort(code) == Response(code, "", "", "", <<>>, FALSE)

\* The requests of a concurrent run, numbered in the order they arrive.
Procs == 1..NumRequests

\* op: the handler; name, partner: the stripped fields of the request;
\* assignments: the list load_assignments() returned to the thread;
\* resp: the response, sent when the thread is done.
NoLocal ==
    [op |-> "none", name |-> "", partner |-> "", assignments |-> <<>>,
     resp |-> NoResponse]

(***************************************************************************)
(* Initial state: a fresh deployment, only the roster file exists.         *)
(***************************************************************************)
Init ==
    /\ participantsFile \in Rosters
    /\ assignmentsFile = [exists |-> FALSE, assignments |-> <<>>]
    /\ excelFile = [exists |-> FALSE, columns |-> <<>>, rows |-> <<>>]
    /\ now = 0
    /\ resp = NoResponse
    /\ drawn = {}
    /\ pc = [p \in Procs |-> "new"]
    /\ local = [p \in Procs |-> NoLocal]

\* Time passes between requests.
Tick ==
    /\ now < MaxTime
    /\ now' = now + 1
    /\ UNCHANGED <<threads, participantsFile, assignmentsFile, excelFile,
                   resp, drawn>>

(***************************************************************************)
(* GET /                                                                   *)
(***************************************************************************)
index ==
    LET participants == load_participants
        assignments == load_assignments(assignmentsFile)
        available_names == get_available_names(participants, assignments)
    IN  /\ assignmentsFile' = file_after_load(assignmentsFile)
        /\ resp' = Response(200, "", "", "", sorted(available_names),
                            FALSE)
        /\ UNCHANGED <<threads, participantsFile, excelFile, now, drawn>>

(***************************************************************************)
(* POST /asignar                                                           *)
(***************************************************************************)
FormNames == RawValue(AllNames \cup {""})

asignar(raw) ==
    LET selected_name == strip(raw)
        participants == load_participants
        assignments == load_assignments(assignmentsFile)
        roulette_names ==
            get_partner_candidates(selected_name, participants, assignments)
        existing == existing_assignment(assignments, selected_name)
    IN  IF selected_name = ""
        THEN /\ resp' = Abort(302)
             /\ UNCHANGED <<threads, participantsFile, assignmentsFile, excelFile,
                            now, drawn>>
        ELSE IF selected_name \notin Range(participants)
        THEN /\ resp' = Abort(302)
             /\ UNCHANGED <<threads, participantsFile, assignmentsFile, excelFile,
                            now, drawn>>
        ELSE IF existing # <<>>
        THEN /\ assignmentsFile' = file_after_load(assignmentsFile)
             /\ resp' = Response(200, "", selected_name,
                                 Head(existing).partner, roulette_names,
                                 FALSE)
             /\ UNCHANGED <<threads, participantsFile, excelFile, now, drawn>>
        ELSE \E partner \in partner_choices(roulette_names) :
             LET assignment == [name |-> selected_name,
                                partner |-> partner,
                                timestamp |-> now]
                 appended == append_assignment(assignments, assignment)
             IN  /\ assignmentsFile' = save_assignments(appended)
                 /\ excelFile' = export_to_excel(appended)
                 /\ resp' = Response(200, "", selected_name, partner,
                                     roulette_names, TRUE)
                 /\ drawn' = drawn \cup {selected_name}
                 /\ UNCHANGED <<threads, participantsFile, now>>

(***************************************************************************)
(* GET /panel                                                              *)
(***************************************************************************)
admin_panel ==
    /\ resp' = Response(200, "panel", "", "", <<>>, FALSE)
    /\ UNCHANGED <<threads, participantsFile, assignmentsFile, excelFile, now, drawn>>

(***************************************************************************)
(* /admin/asignaciones: GET, DELETE and POST                               *)
(***************************************************************************)
Passwords == {ADMIN_PASSWORD, WRONG_PASSWORD}

\* The names an administrator submits: a name with no record is any
\* roster name that has not asked yet.
AdminNames == {"", "Ana", "Beto", "Cruz"}

\* The partner values an administrator submits.
AdminPartners == {"", "Ana", SENTINEL_MANUAL}

\* request.get_json(silent=True): json is FALSE when the body is no JSON.
\* One body is no JSON, one carries a wrong password, the others are
\* well-formed with the right password.
JsonBodies(partners) ==
    LET blank == [text |-> "", blanks |-> FALSE]
    IN  {[json |-> FALSE, password |-> ADMIN_PASSWORD,
          name |-> blank, partner |-> blank],
         [json |-> TRUE, password |-> WRONG_PASSWORD,
          name |-> [text |-> "Ana", blanks |-> FALSE], partner |-> blank]}
        \cup [json : {TRUE},
              password : {ADMIN_PASSWORD},
              name : RawValue(AdminNames),
              partner : partners]

\* DELETE reads no partner field.
DeleteBodies == JsonBodies({[text |-> "", blanks |-> FALSE]})

UpdateBodies == JsonBodies(RawValue(AdminPartners))

\* _require_password: whether the request goes on.
password_ok(provided) == provided = ADMIN_PASSWORD

admin_get(password) ==
    IF ~password_ok(password)
    THEN /\ resp' = Abort(401)
         /\ UNCHANGED <<threads, participantsFile, assignmentsFile, excelFile, now,
                        drawn>>
    ELSE /\ assignmentsFile' = file_after_load(assignmentsFile)
         /\ resp' = Response(200, "assignments", "", "", <<>>, FALSE)
         /\ UNCHANGED <<threads, participantsFile, excelFile, now, drawn>>

\* The checks both DELETE and POST make before loading: the abort they
\* end in, or code 0 to go on.
admin_precheck(data) ==
    IF ~data.json
    THEN Abort(400)
    ELSE IF ~password_ok(data.password)
    THEN Abort(401)
    ELSE IF strip(data.name) = ""
    THEN Abort(400)
    ELSE NoResponse

\* Mutant: the records that drew the name as partner are removed too.
delete_assignment_cascading(assignments, name) ==
    SelectSeq(assignments,
              LAMBDA item : item.name # name /\ item.partner # name)

\* [item for item in assignments if item["name"] != name]
delete_assignment(assignments, name) ==
    SelectSeq(assignments, LAMBDA item : item.name # name)

admin_delete(data) ==
    LET pre == admin_precheck(data)
        name == strip(data.name)
        assignments == load_assignments(assignmentsFile)
        new_assignments == delete_assignment(assignments, name)
    IN  IF pre.code # 0
        THEN /\ resp' = pre
             /\ UNCHANGED <<threads, participantsFile, assignmentsFile, excelFile,
                            now, drawn>>
        ELSE IF Len(new_assignments) = Len(assignments)
        THEN /\ assignmentsFile' = file_after_load(assignmentsFile)
             /\ resp' = Abort(404)
             /\ UNCHANGED <<threads, participantsFile, excelFile, now, drawn>>
        ELSE /\ assignmentsFile' = save_assignments(new_assignments)
             /\ excelFile' = export_to_excel(new_assignments)
             /\ resp' = Response(200, "eliminado", name, "", <<>>,
                                 FALSE)
             /\ UNCHANGED <<threads, participantsFile, now, drawn>>

\* Mutant: the partner is overwritten, the timestamp is kept.
update_assignment_keeping_timestamp(assignments, name, partner, time) ==
    LET first == CHOOSE i \in DOMAIN assignments :
                    /\ assignments[i].name = name
                    /\ \A j \in 1..(i - 1) : assignments[j].name # name
    IN  [assignments EXCEPT ![first] =
            [name |-> @.name, partner |-> partner,
             timestamp |-> @.timestamp]]

\* assignment["partner"] = partner; assignment["timestamp"] = now, on the
\* first record whose name matches.
update_assignment(assignments, name, partner, time) ==
    LET first == CHOOSE i \in DOMAIN assignments :
                    /\ assignments[i].name = name
                    /\ \A j \in 1..(i - 1) : assignments[j].name # name
    IN  [assignments EXCEPT ![first] =
            [name |-> @.name, partner |-> partner, timestamp |-> time]]

admin_update(data) ==
    LET pre == admin_precheck(data)
        name == strip(data.name)
        partner == strip(data.partner)
        assignments == load_assignments(assignmentsFile)
    IN  IF pre.code # 0
        THEN /\ resp' = pre
             /\ UNCHANGED <<threads, participantsFile, assignmentsFile, excelFile,
                            now, drawn>>
        ELSE IF partner = ""
        THEN /\ assignmentsFile' = file_after_load(assignmentsFile)
             /\ resp' = Abort(400)
             /\ UNCHANGED <<threads, participantsFile, excelFile, now, drawn>>
        ELSE IF existing_assignment(assignments, name) = <<>>
        THEN /\ assignmentsFile' = file_after_load(assignmentsFile)
             /\ resp' = Abort(404)
             /\ UNCHANGED <<threads, participantsFile, excelFile, now, drawn>>
        ELSE LET updated ==
                     update_assignment(assignments, name, partner, now)
             IN  /\ assignmentsFile' = save_assignments(updated)
                 /\ excelFile' = export_to_excel(updated)
                 /\ resp' = Response(200, "actualizado", name, partner,
                                     <<>>, FALSE)
                 /\ UNCHANGED <<threads, participantsFile, now, drawn>>

(***************************************************************************)
(* GET /admin/asignaciones/excel                                           *)
(***************************************************************************)
admin_download_excel(password) ==
    IF ~password_ok(password)
    THEN /\ resp' = Abort(401)
         /\ UNCHANGED <<threads, participantsFile, assignmentsFile, excelFile, now,
                        drawn>>
    ELSE /\ IF excelFile.exists
            THEN UNCHANGED <<assignmentsFile, excelFile>>
            ELSE /\ assignmentsFile' = file_after_load(assignmentsFile)
                 /\ excelFile' =
                        export_to_excel(load_assignments(assignmentsFile))
         /\ resp' = Response(200, "asignaciones.xlsx", "", "", <<>>,
                             FALSE)
         /\ UNCHANGED <<threads, participantsFile, now, drawn>>

(***************************************************************************)
(* The same handlers under concurrency.  Each request runs in its own      *)
(* thread; the threads interleave between a handler's file accesses: the   *)
(* os.path.exists test and the read of load_assignments, the               *)
(* save_assignments([]) of an absent file, the save_assignments of the     *)
(* changed list, and export_to_excel.  No lock is taken anywhere.          *)
(***************************************************************************)
\* Requests arrive in the order of their numbers.
arrives(p) ==
    /\ pc[p] = "new"
    /\ \A q \in Procs : q < p => pc[q] # "new"

\* The thread answers r and ends.
respond(p, r) ==
    /\ pc' = [pc EXCEPT ![p] = "done"]
    /\ local' = [local EXCEPT ![p].resp = r]

\* load_assignments() up to its return, or up to save_assignments([]).
start_load(p, op, name, partner) ==
    /\ pc' = [pc EXCEPT ![p] =
                 IF assignmentsFile.exists THEN "loaded" ELSE "create"]
    /\ local' = [local EXCEPT ![p] =
                    [op |-> op, name |-> name, partner |-> partner,
                     assignments |-> load_assignments(assignmentsFile),
                     resp |-> NoResponse]]

\* POST /asignar: the checks of the name, then load_assignments().
asignar_begin(p, raw) ==
    LET selected_name == strip(raw)
    IN  /\ arrives(p)
        /\ IF \/ selected_name = ""
              \/ selected_name \notin Range(load_participants)
           THEN respond(p, Abort(302))
           ELSE start_load(p, "asignar", selected_name, "")
        /\ UNCHANGED <<participantsFile, assignmentsFile, excelFile, now,
                       resp, drawn>>

\* DELETE /admin/asignaciones: the checks, then load_assignments().
admin_delete_begin(p, data) ==
    LET pre == admin_precheck(data)
    IN  /\ arrives(p)
        /\ IF pre.code # 0
           THEN respond(p, pre)
           ELSE start_load(p, "admin_delete", strip(data.name), "")
        /\ UNCHANGED <<participantsFile, assignmentsFile, excelFile, now,
                       resp, drawn>>

\* POST /admin/asignaciones: the checks, then load_assignments().
admin_update_begin(p, data) ==
    LET pre == admin_precheck(data)
    IN  /\ arrives(p)
        /\ IF pre.code # 0
           THEN respond(p, pre)
           ELSE start_load(p, "admin_update", strip(data.name),
                           strip(data.partner))
        /\ UNCHANGED <<participantsFile, assignmentsFile, excelFile, now,
                       resp, drawn>>

\* load_assignments() found no file: save_assignments([]); return [].
load_create(p) ==
    /\ pc[p] = "create"
    /\ assignmentsFile' = save_assignments(<<>>)
    /\ pc' = [pc EXCEPT ![p] = "loaded"]
    /\ UNCHANGED <<participantsFile, excelFile, now, resp, drawn, local>>

\* Mutant: the record is appended to the file as it is at the save, not
\* to the list the thread loaded.
asignar_save_rereading(p) ==
    LET selected_name == local[p].name
        assignments == load_assignments(assignmentsFile)
        roulette_names ==
            get_partner_candidates(selected_name, load_participants,
                                   assignments)
        existing == existing_assignment(assignments, selected_name)
    IN  /\ pc[p] = "loaded"
        /\ local[p].op = "asignar"
        /\ IF existing # <<>>
           THEN /\ respond(p, Response(200, "", selected_name,
                                       Head(existing).partner,
                                       roulette_names, FALSE))
                /\ UNCHANGED <<assignmentsFile, drawn>>
           ELSE \E partner \in partner_choices(roulette_names) :
                LET assignment == [name |-> selected_name,
                                   partner |-> partner,
                                   timestamp |-> now]
                IN  /\ assignmentsFile' =
                           save_assignments(
                               append_assignment(assignments, assignment))
                    /\ drawn' = drawn \cup {selected_name}
                    /\ pc' = [pc EXCEPT ![p] = "export"]
                    /\ local' = [local EXCEPT ![p].resp =
                                    Response(200, "", selected_name, partner,
                                             roulette_names, TRUE)]
        /\ UNCHANGED <<participantsFile, excelFile, now, resp>>

\* asignar from the loaded list to save_assignments().
asignar_save(p) ==
    LET selected_name == local[p].name
        assignments == local[p].assignments
        roulette_names ==
            get_partner_candidates(selected_name, load_participants,
                                   assignments)
        existing == existing_assignment(assignments, selected_name)
    IN  /\ pc[p] = "loaded"
        /\ local[p].op = "asignar"
        /\ IF existing # <<>>
           THEN /\ respond(p, Response(200, "", selected_name,
                                       Head(existing).partner,
                                       roulette_names, FALSE))
                /\ UNCHANGED <<assignmentsFile, drawn>>
           ELSE \E partner \in partner_choices(roulette_names) :
                LET assignment == [name |-> selected_name,
                                   partner |-> partner,
                                   timestamp |-> now]
                IN  /\ assignmentsFile' =
                           save_assignments(
                               append_assignment(assignments, assignment))
                    /\ drawn' = drawn \cup {selected_name}
                    /\ pc' = [pc EXCEPT ![p] = "export"]
                    /\ local' = [local EXCEPT ![p].resp =
                                    Response(200, "", selected_name, partner,
                                             roulette_names, TRUE)]
        /\ UNCHANGED <<participantsFile, excelFile, now, resp>>

\* DELETE from the loaded list to save_assignments().
admin_delete_save(p) ==
    LET name == local[p].name
        assignments == local[p].assignments
        new_assignments == delete_assignment(assignments, name)
    IN  /\ pc[p] = "loaded"
        /\ local[p].op = "admin_delete"
        /\ IF Len(new_assignments) = Len(assignments)
           THEN /\ respond(p, Abort(404))
                /\ UNCHANGED assignmentsFile
           ELSE /\ assignmentsFile' = save_assignments(new_assignments)
                /\ pc' = [pc EXCEPT ![p] = "export"]
                /\ local' = [local EXCEPT ![p].resp =
                                Response(200, "eliminado", name, "", <<>>,
                                         FALSE)]
        /\ UNCHANGED <<participantsFile, excelFile, now, resp, drawn>>

\* POST (update) from the loaded list to save_assignments().
admin_update_save(p) ==
    LET name == local[p].name
        partner == local[p].partner
        assignments == local[p].assignments
    IN  /\ pc[p] = "loaded"
        /\ local[p].op = "admin_update"
        /\ IF partner = ""
           THEN /\ respond(p, Abort(400))
                /\ UNCHANGED assignmentsFile
           ELSE IF existing_assignment(assignments, name) = <<>>
           THEN /\ respond(p, Abort(404))
                /\ UNCHANGED assignmentsFile
           ELSE /\ assignmentsFile' = save_assignments(
                       update_assignment(assignments, name, partner, now))
                /\ pc' = [pc EXCEPT ![p] = "export"]
                /\ local' = [local EXCEPT ![p].resp =
                                Response(200, "actualizado", name, partner,
                                         <<>>, FALSE)]
        /\ UNCHANGED <<participantsFile, excelFile, now, resp, drawn>>

\* export_to_excel() after a save, then the response.
export(p) ==
    /\ pc[p] = "export"
    /\ excelFile' = export_to_excel(load_assignments(assignmentsFile))
    /\ pc' = [pc EXCEPT ![p] = "done"]
    /\ UNCHANGED <<participantsFile, assignmentsFile, now, resp, drawn,
                   local>>

\* The requests of one concurrent run fall within one reading of the clock:
\* no handler reads a stored timestamp, so the clock decides nothing here.
ConcNext ==
    \/ \E p \in Procs, raw \in FormNames : asignar_begin(p, raw)
    \/ \E p \in Procs, data \in DeleteBodies : admin_delete_begin(p, data)
    \/ \E p \in Procs, data \in UpdateBodies : admin_update_begin(p, data)
    \/ \E p \in Procs : load_create(p)
    \/ \E p \in Procs : asignar_save(p)
    \/ \E p \in Procs : admin_delete_save(p)
    \/ \E p \in Procs : admin_update_save(p)
    \/ \E p \in Procs : export(p)

\* The store a concurrent run starts from: that of a fresh deployment, or
\* the one left by a pairing request of the first roster member, handled
\* alone (so that the requests of the run can race on a record that is
\* already there).
ConcInit ==
    /\ participantsFile \in Rosters
    /\ now = 0
    /\ resp = NoResponse
    /\ pc = [p \in Procs |-> "new"]
    /\ local = [p \in Procs |-> NoLocal]
    /\ \/ /\ assignmentsFile = [exists |-> FALSE, assignments |-> <<>>]
          /\ excelFile = [exists |-> FALSE, columns |-> <<>>, rows |-> <<>>]
          /\ drawn = {}
       \/ /\ Len(participantsFile) >= 2
          /\ LET first == Head(participantsFile)
                 candidates ==
                     get_partner_candidates(first, participantsFile, <<>>)
                 assignments ==
                     append_assignment(<<>>,
                         [name |-> first, partner |-> Head(candidates),
                          timestamp |-> now])
             IN  /\ assignmentsFile = save_assignments(assignments)
                 /\ excelFile = export_to_excel(assignments)
                 /\ drawn = {first}

\* Concurrent pairing requests, admin updates and admin deletes.
ConcSpec == ConcInit /\ [][ConcNext]_vars

\* Concurrent pairing requests alone: no admin operation.
PairingNext ==
    \/ \E p \in Procs, raw \in FormNames : asignar_begin(p, raw)
    \/ \E p \in Procs : load_create(p)
    \/ \E p \in Procs : asignar_save(p)
    \/ \E p \in Procs : export(p)

PairingSpec == ConcInit /\ [][PairingNext]_vars

\* Concurrent pairing requests and admin deletes: no admin update.
NoUpdateNext ==
    \/ \E p \in Procs, raw \in FormNames : asignar_begin(p, raw)
    \/ \E p \in Procs, data \in DeleteBodies : admin_delete_begin(p, data)
    \/ \E p \in Procs : load_create(p)
    \/ \E p \in Procs : asignar_save(p)
    \/ \E p \in Procs : admin_delete_save(p)
    \/ \E p \in Procs : export(p)

NoUpdateSpec == ConcInit /\ [][NoUpdateNext]_vars

\* Pairing requests alone, one at a time, as time passes.
RequestsNext ==
    \/ Tick
    \/ \E raw \in FormNames : asignar(raw)

\* Serial pairing requests from a fresh deployment: no admin operation.
RequestsSpec == Init /\ [][RequestsNext]_vars

Next ==
    \/ Tick
    \/ index
    \/ \E raw \in FormNames : asignar(raw)
    \/ admin_panel
    \/ \E password \in Passwords : admin_get(password)
    \/ \E data \in DeleteBodies : admin_delete(data)
    \/ \E data \in UpdateBodies : admin_update(data)
    \/ \E password \in Passwords : admin_download_excel(password)

Spec == Init /\ [][Next]_vars

\* The handlers that write the store, requested one at a time within one
\* reading of the clock.
MutationNext ==
    \/ \E raw \in FormNames : asignar(raw)
    \/ \E data \in DeleteBodies : admin_delete(data)
    \/ \E data \in UpdateBodies : admin_update(data)

\* Serial pairing requests, admin deletes and admin updates.
MutationSpec == Init /\ [][MutationNext]_vars

(***************************************************************************)
(* Vocabulary of the properties.                                           *)
(***************************************************************************)
\* The persisted history.
history == assignmentsFile.assignments

HasRecord(assignments, n) ==
    \E i \in DOMAIN assignments : assignments[i].name = n

\* A partner value that means "no partner": recognised by its prefix.
IsSentinel(partner) == StartsWithSinPareja(partner)

\* No non-sentinel value is the partner of two records.
PartnerUnique(assignments) ==
    \A i, j \in DOMAIN assignments :
        (i # j /\ assignments[i].partner = assignments[j].partner)
            => IsSentinel(assignments[i].partner)

\* No record pairs a name with itself.
SelfExcluded(assignments) ==
    \A i \in DOMAIN assignments :
        assignments[i].partner # assignments[i].name
            \/ IsSentinel(assignments[i].partner)

\* At most one record per name.
NameUnique(assignments) ==
    \A i, j \in DOMAIN assignments :
        assignments[i].name = assignments[j].name => i = j

\* The names that are the partner of some record, whatever the partner.
PartnersOf(assignments) ==
    {assignments[i].partner : i \in DOMAIN assignments}

\* This step is a pairing request for n.
AsignarStep(n) == \E raw \in FormNames : strip(raw) = n /\ asignar(raw)

\* This step is a first-time pairing request for roster member n.
FirstTimeStep(n) ==
    /\ n \in Range(participantsFile)
    /\ ~HasRecord(history, n)
    /\ AsignarStep(n)

\* This step is an admin update, successful or not.
UpdateStep == \E data \in UpdateBodies : admin_update(data)

\* This step is an admin delete of n's record: a DELETE that passes the
\* checks of its body, for a name that has a record (its response names
\* n: stated first, to tell the step from the others at once).
DeleteStep(n) ==
    /\ HasRecord(history, n)
    /\ resp'.name = n
    /\ \E data \in DeleteBodies :
          /\ admin_precheck(data).code = 0
          /\ strip(data.name) = n
          /\ admin_delete(data)

\* The last response shows a pairing: the page result.html.
IsPairing(r) == r.code = 200 /\ r.status = "" /\ r.name # ""

(***************************************************************************)
(* C1. Uniqueness.                                                         *)
(***************************************************************************)
\* C1 as stated: in every store state reachable by pairing requests, admin
\* deletes and admin updates, no non-sentinel value is the partner of more
\* than one record.  An admin update writes any partner, used or not.
C1_PartnerUniqueAlways == PartnerUnique(history)

\* C1 amended: the store starts with no duplicate partner and only an
\* admin update ever introduces one; hence no non-sentinel value is the
\* partner of two records in any store reached by pairing requests and
\* admin deletes alone.
C1_PartnerUniqueKeptWithoutUpdate ==
    [][(PartnerUnique(history) /\ ~PartnerUnique(history'))
          => UpdateStep]_vars

\* Two records with distinct roster partners, the second just drawn.
C1_Witness ==
    /\ resp.created
    /\ Len(history) >= 2
    /\ history[Len(history)].name = resp.name
    /\ \A i \in DOMAIN history : ~IsSentinel(history[i].partner)
    /\ PartnerUnique(history)

(***************************************************************************)
(* C2. Idempotence.                                                        *)
(***************************************************************************)
\* C2: when a pairing request for n follows a pairing response for n, it
\* returns the same (name, partner) pair and writes nothing: the history,
\* with its order and timestamps, and the export are as before.
C2_Idempotent ==
    [][\A n \in AllNames :
          (IsPairing(resp) /\ resp.name = n /\ AsignarStep(n))
              => /\ IsPairing(resp')
                 /\ resp'.name = resp.name
                 /\ resp'.partner = resp.partner
                 /\ ~resp'.created
                 /\ assignmentsFile' = assignmentsFile
                 /\ excelFile' = excelFile]_vars

\* A repeated request was answered, later than the second in which the
\* record was created, with the partner of the record.
C2_Witness ==
    /\ IsPairing(resp)
    /\ ~resp.created
    /\ \E i \in DOMAIN history :
          /\ history[i].name = resp.name
          /\ history[i].partner = resp.partner
          /\ history[i].timestamp < now

(***************************************************************************)
(* C3. One record per name, under concurrency.                             *)
(***************************************************************************)
\* C3: under any interleaving of concurrent pairing requests, admin updates
\* and admin deletes, the store holds at most one record per name.
C3_NameUnique == NameUnique(history)

\* Two requests for the same name both drew a partner, and one record of
\* that name is in the store.
C3_Witness ==
    \E p, q \in Procs :
        /\ p # q
        /\ pc[p] = "done" /\ pc[q] = "done"
        /\ local[p].resp.created /\ local[q].resp.created
        /\ local[p].name = local[q].name
        /\ HasRecord(history, local[p].name)

(***************************************************************************)
(* C4. The lost append.                                                    *)
(***************************************************************************)
\* p drew a partner for a name, from the list it loaded, and has saved.
HasSavedDraw(p) ==
    /\ local[p].op = "asignar"
    /\ pc[p] \in {"export", "done"}
    /\ local[p].resp.created

\* C4: when two first-time requests for different names loaded the same
\* history and one has saved, the save of the other leaves the store with
\* the record of the later saver and without the record of the earlier
\* one; both requests answer 200.
C4_LaterSaveLosesEarlierAppend ==
    [][\A p, q \in Procs :
          (/\ p # q
           /\ HasSavedDraw(p)
           /\ local[q].op = "asignar"
           /\ pc[q] = "loaded"
           /\ local[q].name # local[p].name
           /\ local[q].assignments = local[p].assignments
           /\ pc'[q] = "export")
              => /\ HasRecord(history', local[q].name)
                 /\ ~HasRecord(history', local[p].name)
                 /\ Len(history') = Len(local[q].assignments) + 1
                 /\ local[p].resp.code = 200
                 /\ local'[q].resp.code = 200
                 /\ local'[q].resp.created]_vars

\* Both requests are done and answered with a drawn partner, and the
\* store holds the record of one of them only.
C4_Witness ==
    \E p, q \in Procs :
        /\ p # q
        /\ pc[p] = "done" /\ pc[q] = "done"
        /\ local[p].resp.created /\ local[q].resp.created
        /\ local[p].resp.code = 200 /\ local[q].resp.code = 200
        /\ local[p].name # local[q].name
        /\ local[p].assignments = local[q].assignments
        /\ HasRecord(history, local[q].name)
        /\ ~HasRecord(history, local[p].name)

(***************************************************************************)
(* C5. Self-exclusion.                                                     *)
(***************************************************************************)
\* C5 as stated: in every store state reachable by pairing requests, admin
\* updates and admin deletes, no record has its own name as partner.  An
\* admin update writes any partner, the record's own name included.
C5_SelfExcludedAlways == SelfExcluded(history)

\* C5 amended: the store starts with no self-paired record and only an
\* admin update ever introduces one; hence no record is self-paired in
\* any store reached by pairing requests and admin deletes alone.
C5_SelfExcludedKeptWithoutUpdate ==
    [][(SelfExcluded(history) /\ ~SelfExcluded(history'))
          => UpdateStep]_vars

\* A request just drew a roster member other than the requester.
C5_Witness ==
    /\ resp.created
    /\ resp.partner \in Range(participantsFile)
    /\ resp.partner # resp.name
    /\ history[Len(history)].name = resp.name
    /\ history[Len(history)].partner = resp.partner
    /\ SelfExcluded(history)
(***************************************************************************)
(* C6. At most one draw.                                                   *)
(***************************************************************************)
\* This step appends a record for n: a partner is drawn for n.
DrawStep(n) ==
    /\ Len(history') = Len(history) + 1
    /\ history'[Len(history')].name = n

\* C6 as stated: over the lifetime of the store a record is created for a
\* name at most once: no partner is drawn for a name drawn for before.
\* After an admin delete of the record the next request draws again.
C6_DrawnOnceEver ==
    [][\A n \in AllNames : DrawStep(n) => n \notin drawn]_vars

\* C6 amended: a partner is drawn for a name only while the store holds no
\* record of that name, and a record leaves the store only by an admin
\* delete of its name; so each participant is drawn for at most once
\* between admin deletes of their record.
C6_DrawnOncePerRecord ==
    [][\A n \in AllNames :
          /\ DrawStep(n) => ~HasRecord(history, n)
          /\ (HasRecord(history, n) /\ ~HasRecord(history', n))
                => DeleteStep(n)]_vars

\* A partner was just drawn for a name, while a name drawn for earlier
\* has no record any more: its record was deleted.
C6_Witness ==
    /\ resp.created
    /\ HasRecord(history, resp.name)
    /\ \E n \in drawn : ~HasRecord(history, n)

(***************************************************************************)
(* C7. Scenario A.                                                         *)
(***************************************************************************)
ScenarioRoster == <<"Ana", "Beto", "Cruz">>

\* Ana drew Beto, then Beto drew Cruz.
ScenarioTwoDraws(assignments) ==
    /\ Len(assignments) = 2
    /\ assignments[1].name = "Ana" /\ assignments[1].partner = "Beto"
    /\ assignments[2].name = "Beto" /\ assignments[2].partner = "Cruz"

\* C7 as stated: with roster [Ana, Beto, Cruz], after Ana drew Beto and
\* Beto drew Cruz, the first request of Cruz finds an empty candidate pool
\* and receives the sentinel.  Ana is the partner of no record, so the
\* pool of Cruz is [Ana].
C7_ScenarioA ==
    [][(/\ participantsFile = ScenarioRoster
        /\ ScenarioTwoDraws(history)
        /\ AsignarStep("Cruz"))
          => /\ resp'.code = 200
             /\ resp'.name = "Cruz"
             /\ resp'.names = <<>>
             /\ resp'.partner = SENTINEL
             /\ history' = Append(history,
                                  [name |-> "Cruz", partner |-> SENTINEL,
                                   timestamp |-> now])]_vars

\* C7 amended: with roster [Ana, Beto, Cruz], after Ana drew Beto and Beto
\* drew Cruz, the first request of Cruz finds the candidate pool [Ana]
\* and receives Ana, not the sentinel.
C7_ScenarioADrawsAna ==
    [][(/\ participantsFile = ScenarioRoster
        /\ ScenarioTwoDraws(history)
        /\ AsignarStep("Cruz"))
          => /\ resp'.code = 200
             /\ resp'.name = "Cruz"
             /\ resp'.names = <<"Ana">>
             /\ resp'.partner = "Ana"
             /\ history' = Append(history,
                                  [name |-> "Cruz", partner |-> "Ana",
                                   timestamp |-> now])]_vars

\* The scenario has run to its end.
C7_Witness ==
    /\ participantsFile = ScenarioRoster
    /\ Len(history) = 3
    /\ ScenarioTwoDraws(SubSeq(history, 1, 2))
    /\ history[3].name = "Cruz" /\ history[3].partner = "Ana"
    /\ resp.created /\ resp.name = "Cruz" /\ resp.partner = "Ana"

(***************************************************************************)
(* C8. Exhaustion.                                                         *)
(***************************************************************************)
\* Every roster member other than n is the partner of some record.
OthersConsumed(n) ==
    \A m \in Range(participantsFile) :
        m # n => \E i \in DOMAIN history : history[i].partner = m

\* C8: a first-time request by roster member n, made when every other
\* roster member is the partner of some record, does not fail: it answers
\* 200 and appends a record for n with the sentinel as partner.
C8_Exhaustion ==
    [][\A n \in AllNames :
          (FirstTimeStep(n) /\ OthersConsumed(n))
              => /\ resp'.code = 200
                 /\ resp'.partner = SENTINEL
                 /\ history' = Append(history,
                                      [name |-> n, partner |-> SENTINEL,
                                       timestamp |-> now])]_vars

\* The last requester of a roster of three received the sentinel, the two
\* others being consumed as partners.
C8_Witness ==
    /\ Len(participantsFile) = 3
    /\ resp.created /\ resp.partner = SENTINEL
    /\ history # <<>>
    /\ history[Len(history)].name = resp.name
    /\ history[Len(history)].partner = SENTINEL
    /\ \A m \in Range(participantsFile) :
          m # resp.name => m \in PartnersOf(history)

(***************************************************************************)
(* C9. Single append.                                                      *)
(***************************************************************************)
\* C9: a first-time request for n appends exactly one record, of name n,
\* at the end of the history; every record already there keeps its
\* fields and its position, and no record is made for the partner drawn.
C9_SingleAppend ==
    [][\A n \in AllNames :
          FirstTimeStep(n)
              => /\ Len(history') = Len(history) + 1
                 /\ SubSeq(history', 1, Len(history)) = history
                 /\ history'[Len(history')].name = n
                 /\ history'[Len(history')].partner = resp'.partner
                 /\ history'[Len(history')].timestamp = now]_vars

\* A request drew a roster member who has no record of their own, after
\* an earlier record.
C9_Witness ==
    /\ resp.created
    /\ Len(history) >= 2
    /\ history[Len(history)].name = resp.name
    /\ resp.partner \in Range(participantsFile)
    /\ ~HasRecord(history, resp.partner)

(***************************************************************************)
(* C10. The effect of an admin delete.                                     *)
(***************************************************************************)
\* The list without its k-th record.
WithoutIndex(assignments, k) ==
    SubSeq(assignments, 1, k - 1)
        \o SubSeq(assignments, k + 1, Len(assignments))

\* C10: a successful admin delete of n removes exactly the record of name
\* n, leaving the others unchanged and in order; afterwards n is among
\* the available names, and the names consumed as partners through the
\* other records are the same.
C10_DeleteEffect ==
    [][\A n \in AllNames :
          DeleteStep(n)
              => /\ \E k \in DOMAIN history :
                       /\ history[k].name = n
                       /\ history' = WithoutIndex(history, k)
                       /\ used_partners(history') =
                              {history[i].partner : i \in
                                  {j \in DOMAIN history \ {k} :
                                      ~IsSentinel(history[j].partner)}}
                 /\ ~HasRecord(history', n)
                 /\ n \in Range(get_available_names(participantsFile,
                                                    history'))
                 /\ resp'.code = 200]_vars

\* The record of n was deleted while n stays consumed as the partner of
\* another record, and n is offered again on the index page.
C10_Witness ==
    /\ resp.status = "eliminado"
    /\ ~HasRecord(history, resp.name)
    /\ resp.name \in used_partners(history)
    /\ resp.name \in Range(get_available_names(participantsFile, history))

(***************************************************************************)
(* C11. The effect of an admin update.                                     *)
(***************************************************************************)
\* This step is an admin update of n's record to partner p: a POST that
\* passes the checks of its body, with a non-empty partner, for a name
\* that has a record (its response names n and p: stated first, to tell
\* the step from the others at once).
UpdateRecordStep(n, p) ==
    /\ HasRecord(history, n)
    /\ p # ""
    /\ resp'.name = n
    /\ resp'.partner = p
    /\ \E data \in UpdateBodies :
          /\ admin_precheck(data).code = 0
          /\ strip(data.name) = n
          /\ strip(data.partner) = p
          /\ admin_update(data)

\* C11: an admin update for a name n that has a record, with any
\* non-empty partner p (a roster member or not, used or not, n itself or
\* not), sets the partner of n's record to p and its timestamp to the
\* current time; the length of the history, the order of the records and
\* every other record stay as they were.
C11_UpdateEffect ==
    [][\A n \in AdminNames, p \in AdminPartners :
          UpdateRecordStep(n, p)
              => /\ resp'.code = 200
                 /\ Len(history') = Len(history)
                 /\ \E k \in DOMAIN history :
                       /\ history[k].name = n
                       /\ history'[k] = [name |-> n, partner |-> p,
                                         timestamp |-> now]
                       /\ \A i \in DOMAIN history \ {k} :
                             history'[i] = history[i]]_vars

\* The record of a name was updated, later than the second of its draw,
\* to the name itself, which another record holds as partner too; the
\* other record is as it was drawn.
C11_Witness ==
    /\ resp.status = "actualizado"
    /\ resp.partner = resp.name
    /\ now > 0
    /\ \E k, i \in DOMAIN history :
          /\ i # k
          /\ history[k] = [name |-> resp.name, partner |-> resp.name,
                           timestamp |-> now]
          /\ history[i].partner = resp.name
          /\ history[i].timestamp < now

(***************************************************************************)
(* C12. Failed admin operations.                                           *)
(***************************************************************************)
\* The step leaves the history and the export as they were; the one write
\* it may make is load_assignments() creating an absent file, empty.
NothingChanged ==
    /\ history' = history
    /\ assignmentsFile' = file_after_load(assignmentsFile)
    /\ excelFile' = excelFile
    /\ participantsFile' = participantsFile

\* The bodies that pass the checks made before the load.
PassingUpdateBodies == {data \in UpdateBodies : admin_precheck(data).code = 0}

PassingDeleteBodies == {data \in DeleteBodies : admin_precheck(data).code = 0}

\* C12 (pairing requests, admin deletes and admin updates, one at a
\* time): an admin update with a non-empty partner for a name without a
\* record answers 404 (not found); an admin update whose partner is empty
\* or blank answers 400 (invalid input); an admin delete for a name
\* without a record answers 404; each leaves the stored history as it was
\* and regenerates no export.
C12_FailedAdminChangesNothing ==
    [][/\ \A data \in PassingUpdateBodies :
             (/\ strip(data.partner) # ""
              /\ ~HasRecord(history, strip(data.name))
              /\ admin_update(data))
                 => (resp'.code = 404 /\ NothingChanged)
       /\ \A data \in PassingUpdateBodies :
             (/\ strip(data.partner) = ""
              /\ admin_update(data))
                 => (resp'.code = 400 /\ NothingChanged)
       /\ \A data \in PassingDeleteBodies :
             (/\ ~HasRecord(history, strip(data.name))
              /\ admin_delete(data))
                 => (resp'.code = 404 /\ NothingChanged)]_vars

\* An admin operation on a name without a record was answered 404 while
\* the store holds records of other names, and the export still shows
\* exactly these.
C12_Witness ==
    /\ resp.code = 404
    /\ history # <<>>
    /\ excelFile = export_to_excel(history)

(***************************************************************************)
(* C13. Invalid requester.                                                 *)
(***************************************************************************)
\* C13: a pairing request whose name is empty after trimming, or is not on
\* the roster, is rejected (redirected to the index page) without a draw:
\* no record is created and the store and the export are as they were.
C13_InvalidRequesterRejected ==
    [][\A raw \in FormNames :
          (/\ strip(raw) = "" \/ strip(raw) \notin Range(participantsFile)
           /\ asignar(raw))
              => /\ resp'.code = 302
                 /\ ~resp'.created
                 /\ resp'.partner = ""
                 /\ assignmentsFile' = assignmentsFile
                 /\ excelFile' = excelFile
                 /\ drawn' = drawn]_vars

\* A request was rejected while the store holds records, all of roster
\* members, and some known name is not on the roster.
C13_Witness ==
    /\ resp.code = 302
    /\ history # <<>>
    /\ \A i \in DOMAIN history : history[i].name \in Range(participantsFile)
    /\ AllNames \ Range(participantsFile) # {}

(***************************************************************************)
(* C14. Availability.                                                      *)
(***************************************************************************)
\* The available names as the index page computes them.
available_names ==
    get_available_names(load_participants, load_assignments(assignmentsFile))

\* The place of a roster member on the roster.
RosterIndex(n) == CHOOSE k \in DOMAIN participantsFile : participantsFile[k] = n

\* The last response is the index page.
IsIndexPage(r) == r.code = 200 /\ r.status = "" /\ r.name = ""

\* C14: in every reachable state the available names are exactly the
\* roster names without a record of that name, in roster order, each
\* once; being the partner of a record has no influence.  The index page
\* lists exactly these names.
C14_Availability ==
    /\ \A n \in AllNames :
          n \in Range(available_names)
              <=> (n \in Range(participantsFile) /\ ~HasRecord(history, n))
    /\ \A i, j \in DOMAIN available_names :
          i < j => RosterIndex(available_names[i])
                      < RosterIndex(available_names[j])
    /\ IsIndexPage(resp)
          => Range(resp.names) =
                {n \in Range(participantsFile) : ~HasRecord(history, n)}

\* The index page lists two names, one of them consumed as a partner,
\* while another roster member has a record and is not listed.
C14_Witness ==
    /\ IsIndexPage(resp)
    /\ Len(resp.names) = 2
    /\ Range(resp.names) = Range(available_names)
    /\ \E n \in Range(resp.names) : n \in used_partners(history)
    /\ \E n \in Range(participantsFile) :
          HasRecord(history, n) /\ n \notin Range(resp.names)

(***************************************************************************)
(* C15. The export mirrors the history.                                    *)
(***************************************************************************)
\* The table has the three headers and one row (timestamp, name, partner)
\* per record, in the order of the records.
Mirrors(table, assignments) ==
    /\ table.exists
    /\ table.columns = <<"FechaHora", "Nombre", "Pareja">>
    /\ Len(table.rows) = Len(assignments)
    /\ \A i \in DOMAIN assignments :
          table.rows[i] = <<assignments[i].timestamp, assignments[i].name,
                            assignments[i].partner>>

\* The last response reports a successful mutation: a record created,
\* updated or deleted.
IsMutation(r) == r.created \/ r.status \in {"actualizado", "eliminado"}

\* C15 (requests handled one at a time): after every successful create,
\* update or delete the export has the three headers and exactly one row
\* (timestamp, name, partner) per persisted record, in history order; for
\* an empty history it has the headers and no row.  The same holds of the
\* export whenever it exists.
C15_ExportMirrorsHistory ==
    /\ IsMutation(resp) => Mirrors(excelFile, history)
    /\ excelFile.exists => Mirrors(excelFile, history)
    /\ history # <<>> => excelFile.exists

\* A delete left two records drawn at different times, and the export
\* shows both, in order.
C15_Witness ==
    /\ resp.status = "eliminado"
    /\ Len(history) = 2
    /\ history[1].timestamp # history[2].timestamp
    /\ Len(excelFile.rows) = 2
    /\ excelFile.rows[1][2] = history[1].name
    /\ excelFile.rows[2][2] = history[2].name

(***************************************************************************)
(* C16. Legal draw.                                                        *)
(***************************************************************************)
\* The roster members other than n that are not the partner of a record
\* whose partner is no sentinel.
LegalPool(n, assignments) ==
    {m \in Range(participantsFile) :
        /\ m # n
        /\ ~\E i \in DOMAIN assignments :
              /\ assignments[i].partner = m
              /\ ~IsSentinel(assignments[i].partner)}

\* C16: for a first-time request by roster member n the candidate pool is
\* exactly the legal pool of n over the loaded history (a record with a
\* sentinel consumes nobody; a member's own record does not remove the
\* member); when the pool is not empty the partner stored is one of its
\* members, and the sentinel is stored only when the pool is empty.
C16_LegalDraw ==
    [][\A n \in AllNames :
          FirstTimeStep(n)
              => LET pool == LegalPool(n, history)
                     stored == history'[Len(history')].partner
                 IN  /\ Len(history') = Len(history) + 1
                     /\ Range(resp'.names) = pool
                     /\ stored = resp'.partner
                     /\ pool # {} => stored \in pool
                     /\ pool = {} <=> IsSentinel(stored)]_vars

\* A request just drew a roster member who has a record of their own,
\* while another record holds a sentinel.
C16_Witness ==
    /\ resp.created
    /\ history[Len(history)].name = resp.name
    /\ history[Len(history)].partner = resp.partner
    /\ resp.partner \in Range(participantsFile)
    /\ HasRecord(history, resp.partner)
    /\ \E i \in DOMAIN history : IsSentinel(history[i].partner)

(***************************************************************************)
(* C17. Responses under concurrent pairing requests.                       *)
(***************************************************************************)
\* Request p has been answered with a pairing.
AnsweredPairing(p) == pc[p] = "done" /\ IsPairing(local[p].resp)

\* C17 as stated: in any interleaving of concurrent pairing requests, with
\* no admin operation, the responses for the same participant show the
\* same partner, and once all requests are done that partner is the
\* partner of the participant's record in the store.  Two requests for
\* the same name that both load before either saves draw independently.
C17_ResponsesConsistent ==
    /\ \A p, q \in Procs :
          (/\ AnsweredPairing(p) /\ AnsweredPairing(q)
           /\ local[p].resp.name = local[q].resp.name)
              => local[p].resp.partner = local[q].resp.partner
    /\ (\A p \in Procs : pc[p] = "done")
          => \A p \in Procs :
                AnsweredPairing(p)
                    => \E i \in DOMAIN history :
                          /\ history[i].name = local[p].resp.name
                          /\ history[i].partner = local[p].resp.partner

(***************************************************************************)
(* C18. Partner uniqueness of the store under concurrency.                 *)
(***************************************************************************)
\* C18: under any interleaving of concurrent pairing requests and admin
\* deletes, with no admin update, no persisted store state has a
\* non-sentinel value as the partner of more than one record: every save
\* writes a list a thread loaded, without a record or with one record
\* more whose partner the loaded list did not use.
C18_StorePartnerUnique == PartnerUnique(load_assignments(assignmentsFile))

\* Two requests for different names drew the same roster member from the
\* same loaded history and are done; the store holds the record of one of
\* them only.
C18_Witness ==
    \E p, q \in Procs :
        /\ p # q
        /\ pc[p] = "done" /\ pc[q] = "done"
        /\ local[p].resp.created /\ local[q].resp.created
        /\ local[p].resp.name # local[q].resp.name
        /\ local[p].resp.partner = local[q].resp.partner
        /\ ~IsSentinel(local[p].resp.partner)
        /\ HasRecord(history, local[q].resp.name)
        /\ ~HasRecord(history, local[p].resp.name)

(***************************************************************************)
(* C19. The sentinel goes to the last requester only.                      *)
(***************************************************************************)
\* The places of the records that carry a sentinel.
SentinelRecords(assignments) ==
    {i \in DOMAIN assignments : IsSentinel(assignments[i].partner)}

\* C19: in a serial run of pairing requests alone, from the empty store,
\* at most one record ever carries the sentinel, and it is the record of
\* the last roster member to ask: the history was as long as the roster
\* once it was appended (records are only appended in such a run, so it
\* stands at the place numbered by the roster size, with none after it).
C19_SentinelOnlyLast ==
    /\ Cardinality(SentinelRecords(history)) <= 1
    /\ \A i \in SentinelRecords(history) :
          /\ i = Len(participantsFile)
          /\ i = Len(history)
          /\ \A n \in Range(participantsFile) : HasRecord(history, n)

\* The third requester of a roster of three just received the sentinel;
\* the two records before carry roster members.
C19_Witness ==
    /\ Len(participantsFile) = 3
    /\ Len(history) = 3
    /\ resp.created
    /\ resp.partner = SENTINEL
    /\ SentinelRecords(history) = {3}
    /\ history[3].name = resp.name

(***************************************************************************)
(* C20. A delete releases the partner drawn.                               *)
(***************************************************************************)
\* The candidate pool a first-time request by m computes from the store
\* as it is after this step.
NextPool(m) ==
    Range(get_partner_candidates(m, participantsFile,
                                 load_assignments(assignmentsFile')))

\* C20: after a successful admin delete of a record (n, p), p a roster
\* member that no other record has as partner, p is in the candidate pool
\* of the next first-time request by any roster member other than p; the
\* records drawn before the delete stay as they are.
C20_DeleteReleasesPartner ==
    [][\A k \in DOMAIN history :
          (/\ history[k].partner \in Range(participantsFile)
           /\ \A i \in DOMAIN history \ {k} :
                 history[i].partner # history[k].partner
           /\ DeleteStep(history[k].name))
              => /\ history' = WithoutIndex(history, k)
                 /\ \A m \in Range(participantsFile) \ {history[k].partner} :
                       history[k].partner \in NextPool(m)]_vars

\* A delete left two records; a roster member with a record of their own
\* is the partner of neither and is in the pool of every other member,
\* while the name deleted stays consumed as a partner.
C20_Witness ==
    /\ resp.status = "eliminado"
    /\ Len(history) = 2
    /\ resp.name \in used_partners(history)
    /\ \E p \in Range(participantsFile) :
          /\ p \notin PartnersOf(history)
          /\ HasRecord(history, p)
          /\ \A m \in Range(participantsFile) \ {p} :
                p \in Range(get_partner_candidates(m, participantsFile,
                                                   history))
====
